---- MODULE Spec2Model ----
(***************************************************************************)
(* Model of DLP-function/main.py: the two event handlers create_DLP_job    *)
(* and resolve_DLP, the storage buckets they act on, the DLP job service   *)
(* and the Pub/Sub topic that connect them.                                *)
(*                                                                         *)
(* Strings that the code formats or splits are sequences of one-character  *)
(* strings, so that str.format and str.split are computed, not assumed.    *)
(* A handler invocation is a record with a program counter.  It takes one  *)
(* step per external call that reads or writes state another invocation    *)
(* can change (the copy, the delete); the calls before the copy read only  *)
(* what no step changes (a finished job's record, the buckets' handles),   *)
(* so they run in the step that starts the invocation, each with its own   *)
(* failure.                                                                *)
(***************************************************************************)
EXTENDS Naturals, Sequences, FiniteSets, TLC

\* ------------------------------------------------------------ bounds
\* Events of the environment: uploads to the staging bucket (each delivers
\* one object-creation event to create_DLP_job), jobs of other clients, and
\* deliveries of a notification (first or repeated) to resolve_DLP.
MaxEvents == 3
\* Longest object key of the key universe of SpecURI.
MaxKeyLen == 3

\* ------------------------------------------------- configuration
PROJECT_ID ==
  <<"b","a","n","d","e","d","-","o","p","e","r","a","t","o","r","-",
    "3","7","0","5","1","2">>
STAGING_BUCKET == <<"q","u","a","r","-","1","9","9","9">>
SENSITIVE_BUCKET == <<"s","e","n","s","-","1","9","9","9">>
PUB_SUB_TOPIC == <<"d","l","p","-","t","o","p","i","c">>
MIN_LIKELIHOOD == "POSSIBLE"
MAX_FINDINGS == 0
INFO_TYPES ==
  <<"FIRST_NAME", "PHONE_NUMBER", "EMAIL_ADDRESS", "US_SOCIAL_SECURITY_NUMBER">>

LOG_SEVERITY_INFO == "INFO"
LOG_SEVERITY_ERROR == "ERROR"
LOG_SEVERITY_WARNING == "WARNING"
LOG_SEVERITY_DEBUG == "DEBUG"

\* ------------------------------------------------- the environment
\* A bucket of another pipeline, whose DLP jobs notify the same topic.
OTHER_BUCKET == <<"o","t","h","e","r">>
\* Object keys uploaded to the staging bucket: a flat one and a nested one.
Keys == { <<"a">>, <<"d","/","a">> }
\* The characters of the keys of SpecURI.
Alphabet == {"a", "/"}
\* The result summaries (info_type_stats) a finished job may report: no
\* finding, or findings of two info types.
StatsChoices ==
  { <<>>,
    <<[info_type |-> "EMAIL_ADDRESS", count |-> 3],
      [info_type |-> "PHONE_NUMBER", count |-> 1]>> }

VARIABLES
  staging,    \* the staging bucket: object key -> content (upload number)
  sensitive,  \* the sensitive-data bucket: object key -> content
  creates,    \* create_DLP_job invocations, one per object-creation event
  jobs,       \* the DLP service's job records: job name -> record
  published,  \* job names published on the topic (delivered at least once)
  resolves    \* resolve_DLP invocations, one per delivered notification

vars == <<staging, sensitive, creates, jobs, published, resolves>>

\* ------------------------------------------------- strings
\* A mutant of FormatUrl: the two keyword arguments are exchanged.
FormatUrlSwapped(bucket_name, file_name) ==
  <<"g","s",":","/","/">> \o file_name \o <<"/">> \o bucket_name

\* 'gs://{bucket_name}/{file_name}'.format(...)
FormatUrl(bucket_name, file_name) ==
  <<"g","s",":","/","/">> \o bucket_name \o <<"/">> \o file_name

\* A mutant of FormatTopic: the short topic id in place of the resource name.
FormatTopicShort(project_id, topic_id) == topic_id

\* 'projects/{project_id}/topics/{topic_id}'.format(...)
FormatTopic(project_id, topic_id) ==
  <<"p","r","o","j","e","c","t","s","/">> \o project_id
    \o <<"/","t","o","p","i","c","s","/">> \o topic_id

\* f"projects/{PROJECT_ID}"
FormatParent(project_id) ==
  <<"p","r","o","j","e","c","t","s","/">> \o project_id

\* The index of the first sep in s (0 when there is none).
RECURSIVE Find(_, _, _)
Find(s, sep, from) ==
  IF from > Len(s) THEN 0
  ELSE IF s[from] = sep THEN from
  ELSE Find(s, sep, from + 1)

\* A mutant of Split: str.split(sep) without the maxsplit argument.
RECURSIVE SplitAll(_, _, _)
SplitAll(s, sep, maxsplit) ==
  LET i == Find(s, sep, 1) IN
  IF i = 0 THEN <<s>>
  ELSE <<SubSeq(s, 1, i - 1)>> \o SplitAll(SubSeq(s, i + 1, Len(s)), sep, maxsplit)

\* str.split(sep, maxsplit): at most maxsplit cuts, the rest kept whole.
\* cut[m, from] is the split of s from position from on, m cuts being left.
Split(s, sep, maxsplit) ==
  LET cut[m \in 0..maxsplit, from \in 1..(Len(s) + 1)] ==
        LET i == Find(s, sep, from) IN
        IF m = 0 \/ i = 0 THEN <<SubSeq(s, from, Len(s))>>
        ELSE <<SubSeq(s, from, i - 1)>> \o cut[m - 1, i + 1]
  IN cut[maxsplit, 1]

\* ------------------------------------------------- buckets
\* A bucket is a function from the keys of its objects to their contents; the
\* job records of the DLP service are kept the same way, by job name.
EmptyBucket == [k \in {} |-> 0]
Exists(bucket, name) == name \in DOMAIN bucket
Put(bucket, name, content) ==
  [k \in DOMAIN bucket \cup {name} |-> IF k = name THEN content ELSE bucket[k]]

\* A mutant of DeleteBlob: the delete call returns without deleting.
DeleteBlobKeeps(bucket, name) == bucket

\* source_blob.delete(): the object leaves the bucket.
DeleteBlob(bucket, name) == [k \in DOMAIN bucket \ {name} |-> bucket[k]]

\* ------------------------------------------------- call records
\* An invocation keeps the sequence of the external calls it made.  log()
\* writes one line at the given severity and returns; its text is not kept.
Log(severity) == [op |-> "log", arg |-> severity, ok |-> TRUE]
Call(op, ok) == [op |-> op, arg |-> "", ok |-> ok]
NoError == [call |-> "", kind |-> ""]
Count(calls, op) == Cardinality({n \in 1..Len(calls) : calls[n].op = op})
CountLog(calls, severity) ==
  Cardinality({n \in 1..Len(calls) : calls[n].op = "log" /\ calls[n].arg = severity})

\* ------------------------------------------------- initial state
Init ==
  /\ staging = EmptyBucket
  /\ sensitive = EmptyBucket
  /\ creates = <<>>
  /\ jobs = EmptyBucket
  /\ published = {}
  /\ resolves = <<>>

\* The number of jobs in the DLP service that other clients created.
OtherJobs == Cardinality({j \in DOMAIN jobs : jobs[j].origin = 0})

\* The number of events of the environment so far.
Events == Len(creates) + OtherJobs + Len(resolves)

\* The opaque name the service gives the job that the handler of
\* object-creation event e creates, and the m-th job of another client.
JobName(e) == <<"i", e>>
OtherJobName(m) == <<"o", m>>

\* create_DLP_job invocation record c made a submission call that failed.
SubmitFailed(c) ==
  \E n \in 1..Len(c.calls) : c.calls[n] = Call("create_dlp_job", FALSE)

\* ------------------------------------------------- uploads
\* An object is written to the staging bucket under key name (a new object
\* or a new version of an old one); the bucket's trigger queues one
\* object-creation event {name} for create_DLP_job.  The content of the
\* object is the number of the upload, so every upload is told apart.
\* request is what the handler passes to its submission call (none yet).
UploadKey(name, limit) ==
  /\ Events < limit
  /\ staging' = Put(staging, name, Len(creates) + 1)
  /\ creates' = Append(creates,
       [name |-> name, content |-> Len(creates) + 1, pc |-> "triggered",
        calls |-> <<>>, request |-> <<>>, raised |-> NoError])
  /\ UNCHANGED <<sensitive, jobs, published, resolves>>

Upload == \E name \in Keys : UploadKey(name, MaxEvents)

\* ------------------------------------------------- create_DLP_job
\* The inspect_job dictionary built for the file of the event.
InspectJob(file_name) ==
  [inspect_config |->
     [info_types |-> [n \in 1..Len(INFO_TYPES) |-> [name |-> INFO_TYPES[n]]],
      min_likelihood |-> MIN_LIKELIHOOD,
      limits |-> [max_findings_per_request |-> MAX_FINDINGS]],
   storage_config |->
     [cloud_storage_options |->
        [file_set |-> [url |-> FormatUrl(STAGING_BUCKET, file_name)]]],
   actions |->
     <<[pub_sub |-> [topic |-> FormatTopic(PROJECT_ID, PUB_SUB_TOPIC)]]>>]

\* The arguments of dlp.create_dlp_job(parent=(parent), inspect_job=(inspect_job)).
Request(file_name) ==
  [parent |-> FormatParent(PROJECT_ID), inspect_job |-> InspectJob(file_name)]

\* The record the DLP service keeps of a created job.  origin is the number
\* of the object-creation event whose handler created it (0: another client).
NewJob(parent, inspect_job, origin) ==
  [parent |-> parent, inspect_job |-> inspect_job, origin |-> origin,
   state |-> "PENDING", info_type_stats |-> <<>>, inspected |-> 0]

\* A mutant of OnSubmitFailure: the except clause logs and re-raises.
OnSubmitFailureRaises(c) ==
  [c EXCEPT !.pc = "failed",
            !.calls = @ \o <<Log(LOG_SEVERITY_ERROR)>>,
            !.raised = [call |-> "create_dlp_job", kind |-> "Fault"]]

\* except Exception as e: log(e, severity=LOG_SEVERITY_ERROR)
OnSubmitFailure(c) ==
  [c EXCEPT !.pc = "done", !.calls = @ \o <<Log(LOG_SEVERITY_ERROR)>>]

\* A mutant of create_DLP_job: after a failed submission the handler logs
\* the error and submits again, and the second submission goes through.
create_DLP_job_retrying(e, ok) ==
  /\ creates[e].pc = "triggered"
  /\ LET c == [creates[e] EXCEPT
                 !.calls = @ \o <<Log(LOG_SEVERITY_INFO), Call("create_dlp_job", ok)>>,
                 !.request = Request(creates[e].name)] IN
     /\ jobs' = Put(jobs, JobName(e),
          NewJob(c.request.parent, c.request.inspect_job, e))
     /\ creates' = [creates EXCEPT ![e] =
          IF ok THEN [c EXCEPT !.pc = "done",
                               !.calls = @ \o <<Log(LOG_SEVERITY_INFO)>>]
          ELSE [OnSubmitFailure(c) EXCEPT !.calls =
                  @ \o <<Call("create_dlp_job", TRUE)>>]]
  /\ UNCHANGED <<staging, sensitive, published, resolves>>

\* The handler of object-creation event e, whole: it makes one call that
\* changes state, the submission, which succeeds (ok) or raises.
\*   file_name = data['name']; log(..., INFO); inspect_job = {...};
\*   try: dlp.create_dlp_job(parent, inspect_job); log('Job created ...', INFO)
\*   except Exception as e: log(e, ERROR)
create_DLP_job(e, ok) ==
  /\ creates[e].pc = "triggered"
  /\ LET c == [creates[e] EXCEPT
                 !.calls = @ \o <<Log(LOG_SEVERITY_INFO), Call("create_dlp_job", ok)>>,
                 !.request = Request(creates[e].name)] IN
     IF ok
     THEN /\ jobs' = Put(jobs, JobName(e),
               NewJob(c.request.parent, c.request.inspect_job, e))
          /\ creates' = [creates EXCEPT ![e] =
               [c EXCEPT !.pc = "done",
                         !.calls = @ \o <<Log(LOG_SEVERITY_INFO)>>]]
     ELSE /\ jobs' = jobs
          /\ creates' = [creates EXCEPT ![e] = OnSubmitFailure(c)]
  /\ UNCHANGED <<staging, sensitive, published, resolves>>

\* ------------------------------------------------- the DLP service
JobUrl(job) == job.inspect_job.storage_config.cloud_storage_options.file_set.url

\* The bucket and the object key a URL 'gs://<bucket>/<key>' names.
UrlBucket(url) == SubSeq(url, 6, Find(url, "/", 6) - 1)
UrlKey(url) == SubSeq(url, Find(url, "/", 6) + 1, Len(url))

\* Another client of the DLP service creates a job on an object of its own
\* bucket, with the same notification topic.
OtherJob(name) ==
  /\ Events < MaxEvents
  /\ jobs' = Put(jobs, OtherJobName(OtherJobs + 1),
       NewJob(FormatParent(PROJECT_ID),
              [InspectJob(name) EXCEPT
                 !.storage_config.cloud_storage_options.file_set.url =
                    FormatUrl(OTHER_BUCKET, name)],
              0))
  /\ UNCHANGED <<staging, sensitive, creates, published, resolves>>

\* The service inspects the object the job's URL names, records the result
\* summary, and publishes the job's name on the topic of its pub_sub action.
\* An object that is not there yields no finding.
DlpJobDone(j, stats) ==
  /\ jobs[j].state = "PENDING"
  /\ LET url == JobUrl(jobs[j])
         here == UrlBucket(url) = STAGING_BUCKET
         there == here /\ Exists(staging, UrlKey(url)) IN
     /\ (here /\ ~there) => stats = <<>>
     /\ jobs' = [jobs EXCEPT ![j].state = "DONE",
                             ![j].info_type_stats = stats,
                             ![j].inspected =
                                IF there THEN staging[UrlKey(url)] ELSE 0]
  /\ published' = published \cup {j}
  /\ UNCHANGED <<staging, sensitive, creates, resolves>>

\* ------------------------------------------------- resolve_DLP
\* A mutant of Raise: the exception is swallowed and the handler returns.
RaiseSwallowed(r, call, kind) ==
  [r EXCEPT !.pc = "done", !.calls = @ \o <<Call(call, FALSE)>>]

\* An exception of an external call: nothing in resolve_DLP catches it, so
\* the invocation ends there, failed, and the runtime sees the exception.
Raise(r, call, kind) ==
  [r EXCEPT !.pc = "failed",
            !.calls = @ \o <<Call(call, FALSE)>>,
            !.raised = [call |-> call, kind |-> kind]]

\* A mutant of HasFindings: len(info_type_stats) >= 0.
HasFindingsAlways(info_type_stats) == Len(info_type_stats) >= 0

\* if (len(info_type_stats) > 0):
HasFindings(info_type_stats) == Len(info_type_stats) > 0

\* A mutant of NewName: the copy is named after the bucket, not the file.
NewNameBucket(r) == r.source_bucket

\* The name copy_blob gives the copy in the destination bucket: file_name.
NewName(r) == r.file_name

\* A completed relocation by an invocation for job name n: the invocation
\* ended normally on the findings path, and the object is where it left it.
Relocated(n) ==
  \E i \in 1..Len(resolves) :
    /\ resolves[i].job_name = n
    /\ resolves[i].pc = "done"
    /\ resolves[i].info_type_stats # <<>>
    /\ ~Exists(staging, resolves[i].file_name)
    /\ Exists(sensitive, resolves[i].file_name)

\* The invocations that deleted the staging object of key k.
Deleted(k) ==
  {i \in 1..Len(resolves) :
     /\ resolves[i].file_name = k
     /\ \E c \in 1..Len(resolves[i].calls) : resolves[i].calls[c] = Call("delete", TRUE)}

\* A partial failure of an invocation for job name n: its copy succeeded,
\* its delete failed or did not run, and the object is in both buckets.
PartialFailure(n) ==
  \E i \in 1..Len(resolves) :
    /\ resolves[i].job_name = n
    /\ resolves[i].pc \in {"delete", "failed"}
    /\ \E c \in 1..Len(resolves[i].calls) : resolves[i].calls[c] = Call("copy_blob", TRUE)
    /\ Exists(staging, resolves[i].file_name)
    /\ Exists(sensitive, resolves[i].file_name)

\* job = dlp.get_dlp_job(...); log(..., INFO);
\* file_name = file_path.split("/", 3)[3]; info_type_stats = ...
GetJob(r, ok) ==
  LET job == jobs[r.job_name]
      parts == Split(JobUrl(job), "/", 3)
      got == [r EXCEPT !.calls = @ \o <<Call("get_dlp_job", TRUE),
                                        Log(LOG_SEVERITY_INFO)>>] IN
  IF ~ok THEN Raise(r, "get_dlp_job", "Fault")
  ELSE IF Len(parts) < 4
  THEN [got EXCEPT !.pc = "failed",
                   !.raised = [call |-> "split", kind |-> "IndexError"]]
  ELSE [got EXCEPT !.pc = "get_source_bucket",
                   !.file_name = parts[4],
                   !.info_type_stats = job.info_type_stats]

\* A mutant of GetSource: one WARNING line for the whole summary, written
\* after the DEBUG line.
GetSourceOneWarning(r, ok) ==
  IF ~ok THEN Raise(r, "get_bucket", "Fault")
  ELSE IF HasFindings(r.info_type_stats)
  THEN [r EXCEPT !.pc = "get_destination_bucket",
                 !.source_bucket = STAGING_BUCKET,
                 !.calls = @ \o <<Call("get_bucket", TRUE),
                                  Log(LOG_SEVERITY_DEBUG),
                                  Log(LOG_SEVERITY_WARNING)>>]
  ELSE [r EXCEPT !.pc = "done",
                 !.source_bucket = STAGING_BUCKET,
                 !.calls = @ \o <<Call("get_bucket", TRUE)>>]

\* source_bucket = storage_client.get_bucket(STAGING_BUCKET);
\* source_blob = source_bucket.blob(file_name); the test of the summary and,
\* with findings, the WARNING line of each pair and the DEBUG line.
GetSource(r, ok) ==
  IF ~ok THEN Raise(r, "get_bucket", "Fault")
  ELSE IF HasFindings(r.info_type_stats)
  THEN [r EXCEPT !.pc = "get_destination_bucket",
                 !.source_bucket = STAGING_BUCKET,
                 !.calls = @ \o <<Call("get_bucket", TRUE)>>
                   \o [n \in 1..Len(r.info_type_stats) |->
                         Log(LOG_SEVERITY_WARNING)]
                   \o <<Log(LOG_SEVERITY_DEBUG)>>]
  ELSE [r EXCEPT !.pc = "done",
                 !.source_bucket = STAGING_BUCKET,
                 !.calls = @ \o <<Call("get_bucket", TRUE)>>]

\* destination_bucket = storage_client.get_bucket(SENSITIVE_BUCKET)
GetDestination(r, ok) ==
  IF ~ok THEN Raise(r, "get_bucket", "Fault")
  ELSE [r EXCEPT !.pc = "copy_blob",
                 !.calls = @ \o <<Call("get_bucket", TRUE)>>]

\* The calls of resolve_DLP that one step runs, and may make fail.
Faults == {"none", "get_dlp_job", "get_source_bucket", "get_destination_bucket"}

\* A notification of job n is delivered (a first delivery or a redelivery)
\* and resolve_DLP runs up to its copy:
\*   job_name = data['attributes']['DlpJobName']; log(..., INFO); then
\*   GetJob, GetSource and, with findings, GetDestination.
\* fault names the call that fails in this invocation, if one does; r0 to
\* r3 are the invocation's record at its start and after each of the calls.
\* redelivery records that the delivery follows a completed relocation for
\* the job, and uploads_seen the uploads made before such a delivery.
\* partial records that the delivery follows a partial failure for the job,
\* and deletes_seen the deletes of the job's key made before such a delivery.
resolve_DLP_upto(n, fault, limit) ==
  /\ Events < limit
  /\ \E r0 \in {[job_name |-> n, pc |-> "get_dlp_job",
                  calls |-> <<Log(LOG_SEVERITY_INFO)>>,
                  file_name |-> <<>>, info_type_stats |-> <<>>,
                  source_bucket |-> <<>>, raised |-> NoError,
                  redelivery |-> Relocated(n),
                  uploads_seen |-> IF Relocated(n) THEN Len(creates) ELSE 0,
                  partial |-> PartialFailure(n),
                  deletes_seen |-> IF PartialFailure(n)
                                   THEN Cardinality(Deleted(UrlKey(JobUrl(jobs[n]))))
                                   ELSE 0]} :
     \E r1 \in {GetJob(r0, fault # "get_dlp_job")} :
     \E r2 \in {IF r1.pc = "get_source_bucket"
                 THEN GetSource(r1, fault # "get_source_bucket") ELSE r1} :
     \E r3 \in {IF r2.pc = "get_destination_bucket"
                 THEN GetDestination(r2, fault # "get_destination_bucket") ELSE r2} :
       resolves' = Append(resolves, r3)
  /\ UNCHANGED <<staging, sensitive, creates, jobs, published>>

resolve_DLP(n, fault) == resolve_DLP_upto(n, fault, MaxEvents)

\* A mutant of resolve_DLP_copy: a missing source object is skipped in
\* silence, and the handler goes on to the delete.
resolve_DLP_copy_lenient(i, ok) ==
  /\ resolves[i].pc = "copy_blob"
  /\ LET r == resolves[i] IN
     IF ~ok
     THEN /\ resolves' = [resolves EXCEPT ![i] = Raise(r, "copy_blob", "Fault")]
          /\ sensitive' = sensitive
     ELSE /\ resolves' = [resolves EXCEPT ![i] =
               [r EXCEPT !.pc = "delete",
                         !.calls = @ \o <<Call("copy_blob", TRUE)>>]]
          /\ sensitive' = IF Exists(staging, r.file_name)
                          THEN Put(sensitive, NewName(r), staging[r.file_name])
                          ELSE sensitive
  /\ UNCHANGED <<staging, creates, jobs, published>>

\* A mutant of resolve_DLP_copy: the call moves the object (the source is
\* gone after it) instead of copying it.
resolve_DLP_copy_moving(i, ok) ==
  /\ resolves[i].pc = "copy_blob"
  /\ LET r == resolves[i] IN
     IF ~ok
     THEN /\ resolves' = [resolves EXCEPT ![i] = Raise(r, "copy_blob", "Fault")]
          /\ sensitive' = sensitive
          /\ staging' = staging
     ELSE IF ~Exists(staging, r.file_name)
     THEN /\ resolves' = [resolves EXCEPT ![i] = Raise(r, "copy_blob", "NotFound")]
          /\ sensitive' = sensitive
          /\ staging' = staging
     ELSE /\ resolves' = [resolves EXCEPT ![i] =
               [r EXCEPT !.pc = "delete",
                         !.calls = @ \o <<Call("copy_blob", TRUE)>>]]
          /\ sensitive' = Put(sensitive, NewName(r), staging[r.file_name])
          /\ staging' = DeleteBlob(staging, r.file_name)
  /\ UNCHANGED <<creates, jobs, published>>

\* A mutant of resolve_DLP_copy: the copy does not overwrite; with an object
\* of that name in the destination the call raises.
resolve_DLP_copy_no_overwrite(i, ok) ==
  /\ resolves[i].pc = "copy_blob"
  /\ LET r == resolves[i] IN
     IF ~ok
     THEN /\ resolves' = [resolves EXCEPT ![i] = Raise(r, "copy_blob", "Fault")]
          /\ sensitive' = sensitive
     ELSE IF ~Exists(staging, r.file_name)
     THEN /\ resolves' = [resolves EXCEPT ![i] = Raise(r, "copy_blob", "NotFound")]
          /\ sensitive' = sensitive
     ELSE IF Exists(sensitive, NewName(r))
     THEN /\ resolves' = [resolves EXCEPT ![i] =
               Raise(r, "copy_blob", "PreconditionFailed")]
          /\ sensitive' = sensitive
     ELSE /\ resolves' = [resolves EXCEPT ![i] =
               [r EXCEPT !.pc = "delete",
                         !.calls = @ \o <<Call("copy_blob", TRUE)>>]]
          /\ sensitive' = Put(sensitive, NewName(r), staging[r.file_name])
  /\ UNCHANGED <<staging, creates, jobs, published>>

\* A mutant of resolve_DLP_copy: a failure of the copy is caught and the
\* handler goes on to the delete.
resolve_DLP_copy_unchecked(i, ok) ==
  /\ resolves[i].pc = "copy_blob"
  /\ LET r == resolves[i] IN
     IF ~ok \/ ~Exists(staging, r.file_name)
     THEN /\ resolves' = [resolves EXCEPT ![i] =
               [r EXCEPT !.pc = "delete",
                         !.calls = @ \o <<Call("copy_blob", FALSE)>>]]
          /\ sensitive' = sensitive
     ELSE /\ resolves' = [resolves EXCEPT ![i] =
               [r EXCEPT !.pc = "delete",
                         !.calls = @ \o <<Call("copy_blob", TRUE)>>]]
          /\ sensitive' = Put(sensitive, NewName(r), staging[r.file_name])
  /\ UNCHANGED <<staging, creates, jobs, published>>

\* source_bucket.copy_blob(source_blob, destination_bucket, file_name):
\* the service copies the object as it is at the call; without a source
\* object the call raises NotFound.
resolve_DLP_copy(i, ok) ==
  /\ resolves[i].pc = "copy_blob"
  /\ LET r == resolves[i] IN
     IF ~ok
     THEN /\ resolves' = [resolves EXCEPT ![i] = Raise(r, "copy_blob", "Fault")]
          /\ sensitive' = sensitive
     ELSE IF ~Exists(staging, r.file_name)
     THEN /\ resolves' = [resolves EXCEPT ![i] = Raise(r, "copy_blob", "NotFound")]
          /\ sensitive' = sensitive
     ELSE /\ resolves' = [resolves EXCEPT ![i] =
               [r EXCEPT !.pc = "delete",
                         !.calls = @ \o <<Call("copy_blob", TRUE)>>]]
          /\ sensitive' = Put(sensitive, NewName(r), staging[r.file_name])
  /\ UNCHANGED <<staging, creates, jobs, published>>

\* source_blob.delete(): without the object the call raises NotFound.
resolve_DLP_delete(i, ok) ==
  /\ resolves[i].pc = "delete"
  /\ LET r == resolves[i] IN
     IF ~ok
     THEN /\ resolves' = [resolves EXCEPT ![i] = Raise(r, "delete", "Fault")]
          /\ staging' = staging
     ELSE IF ~Exists(staging, r.file_name)
     THEN /\ resolves' = [resolves EXCEPT ![i] = Raise(r, "delete", "NotFound")]
          /\ staging' = staging
     ELSE /\ resolves' = [resolves EXCEPT ![i] =
               [r EXCEPT !.pc = "done",
                         !.calls = @ \o <<Call("delete", TRUE)>>]]
          /\ staging' = DeleteBlob(staging, r.file_name)
  /\ UNCHANGED <<sensitive, creates, jobs, published>>

\* ------------------------------------------------- specification
Next ==
  \/ Upload
  \/ \E e \in 1..Len(creates), ok \in BOOLEAN : create_DLP_job(e, ok)
  \/ \E name \in Keys : OtherJob(name)
  \/ \E j \in DOMAIN jobs, stats \in StatsChoices : DlpJobDone(j, stats)
  \/ \E n \in published, fault \in Faults : resolve_DLP(n, fault)
  \/ \E i \in 1..Len(resolves), ok \in BOOLEAN : resolve_DLP_copy(i, ok)
  \/ \E i \in 1..Len(resolves), ok \in BOOLEAN : resolve_DLP_delete(i, ok)

Spec == Init /\ [][Next]_vars

\* The pipeline on one upload and one delivery, the key of the upload being
\* any string of the key universe:
\* every key of at most MaxKeyLen characters of Alphabet.
KeyUniverse == UNION { [1..n -> Alphabet] : n \in 1..MaxKeyLen }

NextURI ==
  \/ \E name \in KeyUniverse : UploadKey(name, 1)
  \/ \E e \in 1..Len(creates), ok \in BOOLEAN : create_DLP_job(e, ok)
  \/ \E j \in DOMAIN jobs, stats \in StatsChoices : DlpJobDone(j, stats)
  \/ \E n \in published, fault \in Faults : resolve_DLP_upto(n, fault, 2)
  \/ \E i \in 1..Len(resolves), ok \in BOOLEAN : resolve_DLP_copy(i, ok)
  \/ \E i \in 1..Len(resolves), ok \in BOOLEAN : resolve_DLP_delete(i, ok)

SpecURI == Init /\ [][NextURI]_vars

\* The pipeline with no external call of resolve_DLP faulting, under fair
\* scheduling; uploads and repeated deliveries stay events of the
\* environment, within its budget.  The topic delivers every published notification at least
\* once: the first delivery of a notification is not an event the
\* environment may withhold, a repeated delivery is.  The runtime runs a
\* started invocation on to its next call.
FirstDelivery(n) ==
  /\ n \in published
  /\ \A i \in 1..Len(resolves) : resolves[i].job_name # n
  /\ resolve_DLP_upto(n, "none", 2 * MaxEvents)

Redelivery(n) ==
  /\ n \in published
  /\ \E i \in 1..Len(resolves) : resolves[i].job_name = n
  /\ resolve_DLP_upto(n, "none", MaxEvents)

CopyStep(i) == i \in 1..Len(resolves) /\ resolve_DLP_copy(i, TRUE)
DeleteStep(i) == i \in 1..Len(resolves) /\ resolve_DLP_delete(i, TRUE)

NextFair ==
  \/ \E name \in Keys : UploadKey(name, MaxEvents - 1)
  \/ \E e \in 1..Len(creates), ok \in BOOLEAN : create_DLP_job(e, ok)
  \/ \E j \in DOMAIN jobs, stats \in StatsChoices : DlpJobDone(j, stats)
  \/ \E n \in published : FirstDelivery(n)
  \/ \E n \in published : Redelivery(n)
  \/ \E i \in 1..Len(resolves) : CopyStep(i)
  \/ \E i \in 1..Len(resolves) : DeleteStep(i)

\* An invocation takes each of its steps once and the invocations are
\* finitely many, so fairness to the steps of all invocations together is
\* fairness to each.
Fairness ==
  /\ WF_vars(\E n \in published : FirstDelivery(n))
  /\ WF_vars(\E i \in 1..Len(resolves) : CopyStep(i))
  /\ WF_vars(\E i \in 1..Len(resolves) : DeleteStep(i))

SpecFair == Init /\ [][NextFair]_vars /\ Fairness

\* ------------------------------------------------- properties
\* The job record invocation i of resolve_DLP is about, and the key its URL names.
JobOf(i) == jobs[resolves[i].job_name]
KeyOf(i) == UrlKey(JobUrl(JobOf(i)))
\* The same of an invocation record r (of the state after a step).
JobOfRec(r) == jobs[r.job_name]
KeyOfRec(r) == UrlKey(JobUrl(JobOfRec(r)))
\* Invocation i has ended: normally, or with an exception.
Ended(i) == resolves[i].pc \in {"done", "failed"}
\* Invocation i takes this step, or begins with it.
Acts(i) == i > Len(resolves) \/ resolves'[i] # resolves[i]
\* Invocation i ends normally with this step.
Completes(i) ==
  /\ resolves'[i].pc = "done"
  /\ i > Len(resolves) \/ resolves[i].pc # "done"
\* Every call invocation record r made returned normally.
AllCallsOk(r) == \A n \in 1..Len(r.calls) : r.calls[n].ok

\* C1: for a job record with a non-empty results summary, an invocation of
\* resolve_DLP that runs to completion with no external call failing ends
\* with the object in the sensitive-data bucket under the key of the job's
\* URL, and absent from the staging bucket.
C1_FindingsRelocate ==
  [][\A i \in 1..Len(resolves') :
       (Completes(i) /\ JobOfRec(resolves'[i]).info_type_stats # <<>>)
         => /\ AllCallsOk(resolves'[i])
            /\ Exists(sensitive', KeyOfRec(resolves'[i]))
            /\ ~Exists(staging', KeyOfRec(resolves'[i]))]_vars

C1_Witness ==
  \E i \in 1..Len(resolves) :
    /\ resolves[i].pc = "done"
    /\ JobOf(i).info_type_stats # <<>>
    /\ Exists(sensitive, KeyOf(i))
    /\ ~Exists(staging, KeyOf(i))

NoUploadSince(i) ==
  \A e \in 1..Len(creates) :
    e > resolves[i].uploads_seen => creates[e].name # KeyOf(i)

\* C3, as stated: a notification redelivered after a completed relocation
\* ends in a failure, raised by the delete of the missing staging object.
\* (Stated for the invocations in which no external service call faults and
\* the key is not uploaded again.)
C3_RedeliveryFailsAtDelete ==
  \A i \in 1..Len(resolves) :
    (resolves[i].redelivery /\ Ended(i) /\ NoUploadSince(i)
       /\ resolves[i].raised.kind # "Fault")
      => /\ resolves[i].pc = "failed"
         /\ resolves[i].raised = [call |-> "delete", kind |-> "NotFound"]

\* C3, amended: a notification redelivered after a completed relocation,
\* the key not being uploaded again, ends in a failure and never in a second
\* relocation; the failure is raised by the copy of the missing staging
\* object (NotFound), or by a faulting call up to the copy, and the delete
\* is not attempted.
C3_RedeliveryFailsAtCopy ==
  \A i \in 1..Len(resolves) :
    (resolves[i].redelivery /\ Ended(i) /\ NoUploadSince(i))
      => /\ resolves[i].pc = "failed"
         /\ resolves[i].raised.call \in {"get_dlp_job", "get_bucket", "copy_blob"}
         /\ resolves[i].raised.kind # "Fault"
              => resolves[i].raised = [call |-> "copy_blob", kind |-> "NotFound"]
         /\ Count(resolves[i].calls, "delete") = 0

C3_Witness ==
  \E i \in 1..Len(resolves) :
    /\ resolves[i].redelivery
    /\ resolves[i].pc = "failed"
    /\ resolves[i].raised = [call |-> "copy_blob", kind |-> "NotFound"]
    /\ Exists(sensitive, KeyOf(i))
    /\ ~Exists(staging, KeyOf(i))

\* C4, as stated: the bucket resolve_DLP copies from and deletes in, and the
\* key, are the bucket and the key of the job's recorded URL, for every job
\* record.
C4_SourceIsUrl ==
  \A i \in 1..Len(resolves) :
    (\E n \in 1..Len(resolves[i].calls) :
        resolves[i].calls[n] = Call("copy_blob", TRUE))
      => /\ resolves[i].source_bucket = UrlBucket(JobUrl(JobOf(i)))
         /\ resolves[i].file_name = KeyOf(i)

\* resolve_DLP invocation record r got its job record from the service.
GotJob(r) ==
  \E n \in 1..Len(r.calls) : r.calls[n] = Call("get_dlp_job", TRUE)

\* C5: for every object key, with or without '/' in it, the key resolve_DLP
\* parses from the URL that create_DLP_job built for that key equals the key.
C5_KeyRoundTrip ==
  \A i \in 1..Len(resolves) :
    (JobOf(i).origin # 0 /\ GotJob(resolves[i]))
      => /\ resolves[i].raised.kind # "IndexError"
         /\ resolves[i].file_name = creates[JobOf(i).origin].name

C5_Witness ==
  \E i \in 1..Len(resolves) :
    /\ JobOf(i).origin # 0
    /\ GotJob(resolves[i])
    /\ Len(resolves[i].file_name) = MaxKeyLen
    /\ resolves[i].file_name[1] = "/"
    /\ resolves[i].file_name[MaxKeyLen] = "/"
    /\ resolves[i].file_name = creates[JobOf(i).origin].name

\* C6: when the submission call of create_DLP_job fails, the handler logs
\* one line at ERROR severity after it and returns normally: no exception
\* leaves it, and it made exactly one submission call.
C6_SubmitFailureSwallowed ==
  \A e \in 1..Len(creates) :
    SubmitFailed(creates[e])
      => /\ creates[e].pc = "done"
         /\ creates[e].raised = NoError
         /\ Count(creates[e].calls, "create_dlp_job") = 1
         /\ CountLog(creates[e].calls, "ERROR") = 1
         /\ creates[e].calls[Len(creates[e].calls)] = Log("ERROR")
         /\ creates[e].calls[Len(creates[e].calls) - 1] = Call("create_dlp_job", FALSE)

C6_Witness ==
  \E e \in 1..Len(creates) :
    /\ SubmitFailed(creates[e])
    /\ creates[e].pc = "done"
    /\ \A j \in DOMAIN jobs : jobs[j].origin # e

\* C7: a failure of the job fetch, of a bucket lookup, of the copy or of the
\* delete in resolve_DLP ends the invocation as failed with that call's
\* exception; the failing call is its last, a failed invocation takes no
\* further step, and the step in which the copy fails changes no bucket
\* and is followed by no delete.
C7_FailurePropagates ==
  [][\A i \in 1..Len(resolves') :
       LET r == resolves'[i] IN
       /\ (\E n \in 1..Len(r.calls) : ~r.calls[n].ok)
            => /\ r.pc = "failed"
               /\ ~r.calls[Len(r.calls)].ok
               /\ r.raised.call = r.calls[Len(r.calls)].op
               /\ \A n \in 1..(Len(r.calls) - 1) : r.calls[n].ok
       /\ (i <= Len(resolves) /\ resolves[i].pc = "failed") => r = resolves[i]
       /\ (Acts(i) /\ r.raised.call = "copy_blob")
            => /\ staging' = staging
               /\ sensitive' = sensitive
               /\ Count(r.calls, "delete") = 0]_vars

C7_Witness ==
  \E i, j \in 1..Len(resolves) :
    /\ resolves[i].pc = "failed"
    /\ resolves[i].raised = [call |-> "copy_blob", kind |-> "Fault"]
    /\ Exists(staging, resolves[i].file_name)
    /\ ~Exists(sensitive, resolves[i].file_name)
    /\ resolves[j].pc = "failed"
    /\ resolves[j].raised.call = "get_dlp_job"

\* Invocation i is in the partial-failure window for key k: its copy of k
\* succeeded and its delete has not (not yet run, or failed).
InWindow(i, k) ==
  /\ resolves[i].file_name = k
  /\ \E n \in 1..Len(resolves[i].calls) : resolves[i].calls[n] = Call("copy_blob", TRUE)
  /\ ~\E n \in 1..Len(resolves[i].calls) : resolves[i].calls[n] = Call("delete", TRUE)

\* C8, as stated: a key is in both the staging and the sensitive-data
\* bucket only inside the partial-failure window of some invocation for it.
C8_BothOnlyInWindow ==
  \A k \in DOMAIN staging \cap DOMAIN sensitive :
    \E i \in 1..Len(resolves) : InWindow(i, k)

\* C8, amended: a key is in both buckets only inside the partial-failure
\* window of some invocation for it, or when it was uploaded to staging
\* again after the copy (the staging object is a later upload than the
\* object copied).
C8_SameObjectOnlyInWindow ==
  \A k \in DOMAIN staging \cap DOMAIN sensitive :
    \/ \E i \in 1..Len(resolves) : InWindow(i, k)
    \/ staging[k] > sensitive[k]

C8_Witness ==
  \E k \in DOMAIN staging \cap DOMAIN sensitive :
    /\ staging[k] = sensitive[k]
    /\ \E i \in 1..Len(resolves) :
         /\ InWindow(i, k)
         /\ resolves[i].raised.call = "delete"

\* C9: every object of the sensitive-data bucket was put there by the copy
\* step of resolve_DLP, from an object that was in the staging bucket under
\* the same key at the copy, with the same content.
C9_CopiedFromStaging ==
  [][\A k \in DOMAIN sensitive' :
       (~Exists(sensitive, k) \/ sensitive'[k] # sensitive[k])
         => /\ Exists(staging, k)
            /\ sensitive'[k] = staging[k]
            /\ \E i \in 1..Len(resolves) :
                 /\ resolves[i].pc = "copy_blob"
                 /\ resolves[i].file_name = k
                 /\ resolves'[i].pc = "delete"]_vars

C9_Witness ==
  \E k \in DOMAIN sensitive :
    /\ Find(k, "/", 1) # 0
    /\ \E e \in 1..Len(creates) :
         creates[e].name = k /\ creates[e].content = sensitive[k]

\* The object that upload e wrote is in the staging bucket.
InStaging(e) ==
  /\ Exists(staging, creates[e].name)
  /\ staging[creates[e].name] = creates[e].content

\* C10, as stated (its part on the handlers): once the submission for an
\* uploaded object has failed, no step of a resolve_DLP invocation, for any
\* job of the pipeline, copies the object or deletes it from staging.
C10_FailedSubmitStaysForever ==
  [][\A e \in 1..Len(creates) :
       (SubmitFailed(creates[e]) /\ InStaging(e)
          /\ \A i \in 1..Len(resolves) : Acts(i) => JobOf(i).origin # 0)
         => /\ Len(creates') = Len(creates)
              => /\ Exists(staging', creates[e].name)
                 /\ staging'[creates[e].name] = creates[e].content
            /\ (/\ Exists(sensitive', creates[e].name)
                /\ sensitive'[creates[e].name] = creates[e].content)
                 => /\ Exists(sensitive, creates[e].name)
                    /\ sensitive[creates[e].name] = creates[e].content]_vars

\* C10, amended: a failed submission creates no job (so no notification is
\* published for one), and while no job record names the object's key the
\* object is not inspected and no handler step copies or deletes it: it
\* stays in the staging bucket until the key is uploaded again.
C10_FailedSubmitStaysWhileNoJob ==
  [][\A e \in 1..Len(creates) :
       SubmitFailed(creates'[e])
         => /\ \A j \in DOMAIN jobs' : jobs'[j].origin # e
            /\ \A n \in published' : jobs'[n].origin # e
            /\ (InStaging(e)
                  /\ \A j \in DOMAIN jobs : UrlKey(JobUrl(jobs[j])) # creates[e].name)
                 => /\ \A j \in DOMAIN jobs' : jobs'[j].inspected # creates[e].content
                    /\ Len(creates') = Len(creates)
                         => /\ Exists(staging', creates[e].name)
                            /\ staging'[creates[e].name] = creates[e].content
                    /\ ~Exists(sensitive', creates[e].name)
                         \/ /\ Exists(sensitive, creates[e].name)
                            /\ sensitive'[creates[e].name] = sensitive[creates[e].name]]_vars

C10_Witness ==
  \E e \in 1..Len(creates) :
    /\ SubmitFailed(creates[e])
    /\ InStaging(e)
    /\ \A j \in DOMAIN jobs : UrlKey(JobUrl(jobs[j])) # creates[e].name
    /\ \E i \in 1..Len(resolves) :
         resolves[i].pc = "done" /\ Exists(sensitive, resolves[i].file_name)

\* create_DLP_job invocation record c has made its submission call.
Submitted(c) == Count(c.calls, "create_dlp_job") > 0

\* C11: for every object-creation event with key k, the storage-location
\* URL of the request create_DLP_job submits is 'gs://', the configured
\* staging bucket, '/', and k, character for character; a job the service
\* created from the request records the same URL.
C11_UrlIsStagingKey ==
  \A e \in 1..Len(creates) :
    Submitted(creates[e])
      => /\ JobUrl(creates[e].request)
              = <<"g","s",":","/","/">> \o STAGING_BUCKET \o <<"/">> \o creates[e].name
         /\ \A j \in DOMAIN jobs :
              jobs[j].origin = e => JobUrl(jobs[j]) = JobUrl(creates[e].request)

C11_Witness ==
  \E e \in 1..Len(creates), j \in DOMAIN jobs :
    /\ Submitted(creates[e])
    /\ jobs[j].origin = e
    /\ Len(creates[e].name) = MaxKeyLen
    /\ creates[e].name[1] = "/"
    /\ Len(JobUrl(jobs[j])) = 5 + Len(STAGING_BUCKET) + 1 + MaxKeyLen

\* C12: the request of every submission of create_DLP_job carries exactly
\* one action, a pub_sub action, whose topic is 'projects/', the configured
\* project id, '/topics/', and the configured topic id; a job the service
\* created from the request records the same actions.
C12_OneActionWithTopic ==
  \A e \in 1..Len(creates) :
    Submitted(creates[e])
      => LET actions == creates[e].request.inspect_job.actions IN
         /\ Len(actions) = 1
         /\ DOMAIN actions[1] = {"pub_sub"}
         /\ DOMAIN actions[1].pub_sub = {"topic"}
         /\ actions[1].pub_sub.topic
              = <<"p","r","o","j","e","c","t","s","/">> \o PROJECT_ID
                  \o <<"/","t","o","p","i","c","s","/">> \o PUB_SUB_TOPIC
         /\ \A j \in DOMAIN jobs :
              jobs[j].origin = e => jobs[j].inspect_job.actions = actions

C12_Witness ==
  \E e \in 1..Len(creates), j \in published :
    /\ Submitted(creates[e])
    /\ jobs[j].origin = e
    /\ Len(jobs[j].inspect_job.actions) = 1
    /\ Len(jobs[j].inspect_job.actions[1].pub_sub.topic)
         = 9 + Len(PROJECT_ID) + 8 + Len(PUB_SUB_TOPIC)

\* The number of log lines among calls.
Logs(calls) == Cardinality({n \in 1..Len(calls) : calls[n].op = "log"})

\* C13: the step of a create_DLP_job invocation, whether its submission
\* succeeds or fails, changes neither the staging bucket nor the
\* sensitive-data bucket, and the invocation makes exactly one submission
\* call and one or two log calls.
C13_CreateTouchesNoBucket ==
  [][\A e \in 1..Len(creates) :
       creates'[e] # creates[e]
         => /\ staging' = staging
            /\ sensitive' = sensitive
            /\ creates'[e].pc = "done"
            /\ Count(creates'[e].calls, "create_dlp_job") = 1
            /\ Logs(creates'[e].calls) \in {1, 2}
            /\ Len(creates'[e].calls) = 1 + Logs(creates'[e].calls)]_vars

C13_Witness ==
  \E e, f \in 1..Len(creates) :
    /\ creates[e].pc = "done" /\ SubmitFailed(creates[e])
    /\ creates[f].pc = "done" /\ ~SubmitFailed(creates[f])
    /\ Logs(creates[e].calls) = 2 /\ Logs(creates[f].calls) = 2
    /\ InStaging(e) /\ InStaging(f)
    /\ sensitive = EmptyBucket

\* The positions in calls of the calls of operation op, and of the log
\* lines of one severity.
At(calls, op) == {n \in 1..Len(calls) : calls[n].op = op}
LogAt(calls, severity) ==
  {n \in 1..Len(calls) : calls[n].op = "log" /\ calls[n].arg = severity}

\* C14: in a resolve_DLP invocation on the findings path the calls come in
\* one order: a WARNING line for each pair of the job's summary, then the
\* DEBUG line, then the copy, then the delete.  The delete is attempted
\* only right after the successful copy of the same invocation, and an
\* invocation makes at most one copy call and at most one delete call.
C14_FindingsPathOrder ==
  \A i \in 1..Len(resolves) :
    LET calls == resolves[i].calls
        warn == LogAt(calls, "WARNING")
        debug == LogAt(calls, "DEBUG")
        copy == At(calls, "copy_blob")
        delete == At(calls, "delete") IN
    /\ Cardinality(copy) <= 1
    /\ Cardinality(delete) <= 1
    /\ Cardinality(debug) <= 1
    /\ debug # {} => /\ Cardinality(warn) = Len(JobOf(i).info_type_stats)
                     /\ JobOf(i).info_type_stats # <<>>
                     /\ \A w \in warn, d \in debug : w < d
    /\ debug = {} => warn = {} /\ copy = {}
    /\ \A c \in copy, d \in debug : d < c
    /\ \A d \in delete : /\ d = Len(calls)
                          /\ calls[d - 1] = Call("copy_blob", TRUE)
    /\ resolves[i].pc = "delete" => calls[Len(calls)] = Call("copy_blob", TRUE)

C14_Witness ==
  \E i \in 1..Len(resolves) :
    /\ resolves[i].pc = "done"
    /\ CountLog(resolves[i].calls, "WARNING") = 2
    /\ CountLog(resolves[i].calls, "DEBUG") = 1
    /\ Count(resolves[i].calls, "copy_blob") = 1
    /\ Count(resolves[i].calls, "delete") = 1

\* Invocation i of resolve_DLP made a successful call of operation op.
Did(i, op) == \E n \in 1..Len(resolves[i].calls) : resolves[i].calls[n] = Call(op, TRUE)

\* Invocations i and j are the two deliveries of one notification of a job
\* of the pipeline with findings: both have ended, no external call of
\* either faulted, the job's key was uploaded once, and no other invocation
\* works on that key.
Duplicates(i, j) ==
  /\ i < j
  /\ resolves[i].job_name = resolves[j].job_name
  /\ JobOf(i).origin # 0
  /\ JobOf(i).info_type_stats # <<>>
  /\ Ended(i) /\ Ended(j)
  /\ resolves[i].raised.kind # "Fault" /\ resolves[j].raised.kind # "Fault"
  /\ Cardinality({e \in 1..Len(creates) : creates[e].name = KeyOf(i)}) = 1
  /\ \A m \in 1..Len(resolves) : resolves[m].file_name = KeyOf(i) => m \in {i, j}

\* C15: when the notification of a job is delivered twice and the two
\* resolve_DLP invocations run together, then however their copy and delete
\* steps interleave, once both have ended the object is in the
\* sensitive-data bucket with the content uploaded and not in the staging
\* bucket, one delete at most succeeded, and one invocation at least ended
\* normally.
C15_DuplicatesConverge ==
  \A i, j \in 1..Len(resolves) :
    Duplicates(i, j)
      => LET k == KeyOf(i) IN
         /\ Exists(sensitive, k)
         /\ sensitive[k] = creates[JobOf(i).origin].content
         /\ ~Exists(staging, k)
         /\ ~(Did(i, "delete") /\ Did(j, "delete"))
         /\ resolves[i].pc = "done" \/ resolves[j].pc = "done"

\* Both invocations copied before either deleted: they ran concurrently.
C15_Witness ==
  \E i, j \in 1..Len(resolves) :
    /\ Duplicates(i, j)
    /\ Did(i, "copy_blob") /\ Did(j, "copy_blob")
    /\ resolves[j].pc = "done"
    /\ resolves[i].raised = [call |-> "delete", kind |-> "NotFound"]

\* C16: a notification redelivered after a partial failure for its job (the
\* copy succeeded, the delete failed or did not run, the object is in both
\* buckets), processed with no external call faulting and with no other
\* invocation deleting the object meanwhile, ends normally, with the object
\* in the sensitive-data bucket and not in the staging bucket.
C16_RedeliveryCompletes ==
  [][\A j \in 1..Len(resolves') :
       LET r == resolves'[j] IN
       (/\ Acts(j)
        /\ r.partial
        /\ r.pc \in {"done", "failed"}
        /\ r.raised.kind # "Fault"
        /\ Cardinality({m \in 1..Len(resolves') \ {j} :
                          /\ resolves'[m].file_name = r.file_name
                          /\ \E c \in 1..Len(resolves'[m].calls) :
                               resolves'[m].calls[c] = Call("delete", TRUE)})
             = r.deletes_seen)
         => /\ r.pc = "done"
            /\ Count(r.calls, "copy_blob") = 1
            /\ Exists(sensitive', KeyOfRec(r))
            /\ ~Exists(staging', KeyOfRec(r))]_vars

C16_Witness ==
  \E i, j \in 1..Len(resolves) :
    /\ resolves[j].partial
    /\ resolves[j].pc = "done"
    /\ resolves[i].job_name = resolves[j].job_name
    /\ resolves[i].raised = [call |-> "delete", kind |-> "Fault"]
    /\ Exists(sensitive, KeyOf(j))
    /\ ~Exists(staging, KeyOf(j))

C18_MovedIsInspected ==
  [][\A i \in 1..Len(resolves) :
       (/\ resolves[i].pc = "copy_blob"
        /\ resolves'[i].pc = "delete"
        /\ JobOf(i).origin # 0)
         => sensitive'[resolves[i].file_name] = JobOf(i).inspected]_vars

\* The notification of the job that the handler of an upload of key k
\* created is published, the job reports findings, and no delivery of the
\* notification is made yet.
Notified(k) ==
  \E e \in 1..Len(creates) :
    /\ creates[e].name = k
    /\ JobName(e) \in published
    /\ jobs[JobName(e)].info_type_stats # <<>>
    /\ \A i \in 1..Len(resolves) : resolves[i].job_name # JobName(e)

\* Key k is in the sensitive-data bucket and not in the staging bucket.
Moved(k) == Exists(sensitive, k) /\ ~Exists(staging, k)

\* C19: when an object is uploaded, its submission succeeds, and the service
\* completes the job with a finding and publishes the notification, then,
\* no external call faulting and the handlers being scheduled fairly, the
\* object is eventually in the sensitive-data bucket and not in staging.
C19_EventuallyRelocated ==
  \A k \in Keys : Notified(k) ~> Moved(k)

C19_Witness ==
  \E e \in 1..Len(creates), i \in 1..Len(resolves) :
    /\ resolves[i].job_name = JobName(e)
    /\ jobs[JobName(e)].info_type_stats # <<>>
    /\ resolves[i].pc = "done"
    /\ Moved(creates[e].name)
    /\ sensitive[creates[e].name] = creates[e].content

====
